---------------------------- MODULE Spec2Model ----------------------------
(***************************************************************************)
(* A model of tiledbvcf.Dataset (apis/python/src/tiledbvcf/dataset.py):    *)
(* one session object bound to a mode, the engine handle it drives, and    *)
(* the generator object that read_iter returns.                            *)
(*                                                                         *)
(* Values.  A Python str is a sequence of one-character strings, so that   *)
(* ",".join(...) is a real concatenation.  An optional argument is a       *)
(* sequence of length 0 (None) or 1 (the value).  A result table is        *)
(* represented by its number of rows.                                      *)
(***************************************************************************)
EXTENDS Integers, Sequences, FiniteSets, TLC

VARIABLES
    mode,     \* self.mode, fixed by __init__
    self_cfg, \* self.cfg: the configuration __init__ was given
    reader,   \* self.reader: the engine read handle
    writer,   \* self.writer: the engine write handle
    store,    \* the dataset behind the handle
    gen,      \* the generator object returned by the latest read_iter call
    calls,    \* the engine calls issued by the latest operation, in order
    last,     \* the latest operation: name, exception raised, value returned
    units     \* engine read units since the latest reset: issued, and reported complete

vars == <<mode, self_cfg, reader, writer, store, gen, calls, last, units>>

----------------------------------------------------------------------------
(* Bounds of the model *)

MaxRecs == 2
MaxComplete == 2

(* Records one read unit returns when no memory budget is configured
   (ReadConfig.memory_budget_mb "default 2048MB") *)
DefaultBudget == 2

----------------------------------------------------------------------------
(* Python values *)

None == <<>>
Some(x) == <<x>>

Min(a, b) == IF a < b THEN a ELSE b

(* the element of a one-element set: Only({e(x) : x \in {v}}) is e(v) with
   v evaluated once *)
Only(S) == CHOOSE x \in S : TRUE

(* sep.join(list) with sep = "," *)
RECURSIVE JoinCSV(_)
JoinCSV(list) ==
    IF list = <<>> THEN <<>>
    ELSE IF Len(list) = 1 THEN list[1]
    ELSE list[1] \o <<",">> \o JoinCSV(Tail(list))

(* str.lower() on the checksum names the model uses *)
Lower(str) ==
    [i \in DOMAIN str |->
        CASE str[i] = "M" -> "m"
          [] str[i] = "D" -> "d"
          [] OTHER -> str[i]]

NoErr == ""
NotReadMode == "Exception: Dataset not open in read mode"
NotWriteMode == "Exception: Dataset not open in write mode"
AttrsNotReadMode == "Exception: Attributes can only be retrieved in read mode"
SamplesConflict == "TypeError: Argument 'samples' not allowed with 'samples_file'"
CountIncomplete == "Exception: Unexpected read status during count."
ScratchIncomplete == "Exception: Must set both scratch_space_path and scratch_space_size to use scratch space"
BadAttrType == "ValueError: Invalid attribute type"

(* The error taxonomy of the specification, as the exceptions the code raises *)
InvalidMode == {NotReadMode, NotWriteMode, AttrsNotReadMode}
ConflictingSelection == {SamplesConflict}
InconsistentState == {CountIncomplete}
IncompleteScratchConfig == {ScratchIncomplete}

----------------------------------------------------------------------------
(* The dataset and the names used as inputs *)

SampleA == <<"A">>
SampleB == <<"B">>
SampleNames == {SampleA, SampleB}
SamplesFileF == <<"F">>
FileContents == {SampleA}
Region1 == <<"1">>
BedFile == <<"b">>
AttrPos == <<"p">>

(* split a comma-separated string into the set of its non-empty fields *)
RECURSIVE SplitCSV(_, _)
SplitCSV(csv, cur) ==
    IF csv = <<>> THEN (IF cur = <<>> THEN {} ELSE {cur})
    ELSE IF Head(csv) = ","
         THEN (IF cur = <<>> THEN {} ELSE {cur}) \cup SplitCSV(Tail(csv), <<>>)
         ELSE SplitCSV(Tail(csv), Append(cur, Head(csv)))

RECURSIVE SumOver(_, _)
SumOver(f, S) ==
    IF S = {} THEN 0
    ELSE LET x == CHOOSE y \in S : TRUE IN f[x] + SumOver(f, S \ {x})

----------------------------------------------------------------------------
(* The engine read handle (libtiledbvcf.Reader) *)

(* the samples a handle's selection names: all of them when nothing is selected *)
Selected(r) ==
    LET named == SplitCSV(r.samples, <<>>)
        filed == IF r.samples_file = None THEN {} ELSE FileContents
    IN IF named \cup filed = {} THEN SampleNames
       ELSE (named \cup filed) \cap SampleNames

(* the records the handle's query matches *)
Matching(r) ==
    LET n == SumOver(store.data, Selected(r))
    IN IF r.max_num_records = None THEN n ELSE Min(n, r.max_num_records[1])

(* the records one read unit can return under the memory budget *)
Capacity(r) ==
    IF r.memory_budget = None THEN DefaultBudget ELSE r.memory_budget[1]

NewReader ==
    [status |-> "uninitialized", samples |-> <<>>, samples_file |-> None,
     regions |-> <<>>, attributes |-> <<>>, bed_file |-> None,
     offset |-> 0, num_records |-> 0,
     max_num_records |-> None, region_partition |-> None,
     sample_partition |-> None, sort_regions |-> None,
     memory_budget |-> None, tiledb_config |-> None]

(* reset(): back to configured, selection cleared, configuration kept *)
reader_reset(r) ==
    [r EXCEPT !.status = "uninitialized", !.samples = <<>>,
              !.samples_file = None, !.regions = <<>>, !.attributes = <<>>,
              !.bed_file = None, !.offset = 0, !.num_records = 0]

(* read(): one bounded unit of read work; nothing once completed *)
reader_read(r) ==
    IF r.status = "completed" THEN [r EXCEPT !.num_records = 0]
    ELSE LET n == Min(Capacity(r), Matching(r) - r.offset)
         IN [r EXCEPT !.num_records = n, !.offset = @ + n,
                      !.status = IF r.offset + n = Matching(r)
                                 THEN "completed" ELSE "incomplete"]

reader_completed(r) == r.status = "completed"

reader_result_num_records(r) == r.num_records

(* one engine call on the read handle *)
ReaderApply(r, fn, arg) ==
    CASE fn = "reset" -> reader_reset(r)
      [] fn = "set_samples" -> [r EXCEPT !.samples = arg]
      [] fn = "set_samples_file" -> [r EXCEPT !.samples_file = Some(arg)]
      [] fn = "set_regions" -> [r EXCEPT !.regions = arg]
      [] fn = "set_attributes" -> [r EXCEPT !.attributes = arg]
      [] fn = "set_bed_file" -> [r EXCEPT !.bed_file = Some(arg)]
      [] fn = "read" -> reader_read(r)
      [] fn = "set_max_num_records" -> [r EXCEPT !.max_num_records = Some(arg)]
      [] fn = "set_region_partition" -> [r EXCEPT !.region_partition = Some(arg)]
      [] fn = "set_sample_partition" -> [r EXCEPT !.sample_partition = Some(arg)]
      [] fn = "set_sort_regions" -> [r EXCEPT !.sort_regions = Some(arg)]
      [] fn = "set_memory_budget" -> [r EXCEPT !.memory_budget = Some(arg)]
      [] fn = "set_tiledb_config" -> [r EXCEPT !.tiledb_config = Some(arg)]
      [] OTHER -> r

(* the session with the outcome of the call in progress *)
Begin ==
    [mode |-> mode, reader |-> reader, writer |-> writer, store |-> store,
     calls |-> <<>>, err |-> NoErr, ret |-> None]

Raise(s, e) == [s EXCEPT !.err = e, !.ret = None]

Return(s, v) == [s EXCEPT !.ret = Some(v)]

(* self.reader.fn(arg) *)
RCall(s, fn, arg) ==
    Only({ [x EXCEPT !.reader = ReaderApply(x.reader, fn, arg),
                     !.calls = Append(x.calls, [fn |-> fn, arg |-> arg])] :
           x \in {s} })

(* self.reader.fn(arg) under a condition of the code *)
RCallIf(cond, s, fn, arg) == IF cond THEN RCall(s, fn, arg) ELSE s

----------------------------------------------------------------------------
(* Dataset: the read session *)

(* _set_samples applying the list and the file when both are given *)
_set_samples_both(s0, samples, samples_file) ==
    Only({ RCallIf(samples_file # None,
                   RCallIf(samples # None, s, "set_samples",
                           IF samples # None THEN JoinCSV(samples[1]) ELSE <<>>),
                   "set_samples_file",
                   IF samples_file # None THEN samples_file[1] ELSE <<>>) :
           s \in {s0} })

(* _set_samples testing for an explicit list first: no conflict is seen *)
_set_samples_list_first(s0, samples, samples_file) ==
    Only({ IF samples # None THEN RCall(s, "set_samples", JoinCSV(samples[1]))
           ELSE IF samples_file # None
                THEN RCall(RCall(s, "set_samples", <<>>),
                           "set_samples_file", samples_file[1])
           ELSE s : s \in {s0} })

(* Dataset._set_samples *)
_set_samples(s0, samples, samples_file) ==
    Only({ IF samples # None /\ samples_file # None THEN Raise(s, SamplesConflict)
           ELSE IF samples # None THEN RCall(s, "set_samples", JoinCSV(samples[1]))
           ELSE IF samples_file # None
                THEN RCall(RCall(s, "set_samples", <<>>),
                           "set_samples_file", samples_file[1])
           ELSE s : s \in {s0} })

(* continue_read resetting the handle before its read unit *)
continue_read_resetting(s0) ==
    Only({ IF s.mode # "r" THEN Raise(s, NotReadMode)
           ELSE Only({ Return(t, reader_result_num_records(t.reader)) :
                       t \in {RCall(RCall(RCall(s, "reset", None), "read", None),
                                    "get_results_arrow", None)} }) :
           s \in {s0} })

(* continue_read fetching the buffered rows without a read unit *)
continue_read_no_unit(s0) ==
    Only({ IF s.mode # "r" THEN Raise(s, NotReadMode)
           ELSE Only({ Return(t, reader_result_num_records(t.reader)) :
                       t \in {RCall(s, "get_results_arrow", None)} }) :
           s \in {s0} })

(* Dataset.continue_read: one read unit, then the buffered rows as a table *)
continue_read(s0) ==
    Only({ IF s.mode # "r" THEN Raise(s, NotReadMode)
           ELSE Only({ Return(t, reader_result_num_records(t.reader)) :
                       t \in {RCall(RCall(s, "read", None),
                                    "get_results_arrow", None)} }) :
           s \in {s0} })

(* Dataset.read_completed *)
read_completed(s0) ==
    Only({ IF s.mode # "r" THEN Raise(s, NotReadMode)
           ELSE Only({ Return(t, reader_completed(t.reader)) :
                       t \in {RCall(s, "completed", None)} }) :
           s \in {s0} })

(* the tail of read applying the region file before the regions *)
read_tail_bed_first(s, a) ==
    LET regions == IF a.regions = None THEN <<>> ELSE a.regions[1]
        s3 == RCallIf(a.bed_file # None, s, "set_bed_file", a.bed_file[1])
        s4 == RCall(s3, "set_regions", JoinCSV(regions))
        s5 == RCall(s4, "set_attributes", a.attrs)
    IN continue_read(s5)

(* lines 149-156 of Dataset.read: regions, attributes, region file, one unit *)
read_tail(s, a) ==
    LET regions == IF a.regions = None THEN <<>> ELSE a.regions[1]
        s3 == RCall(s, "set_regions", JoinCSV(regions))
        s4 == RCall(s3, "set_attributes", a.attrs)
        s5 == RCallIf(a.bed_file # None, s4, "set_bed_file", a.bed_file[1])
    IN continue_read(s5)

(* read looking at the sample arguments before it resets the handle *)
read_checking_first(s0, a) ==
    Only({ IF s.mode # "r" THEN Raise(s, NotReadMode)
           ELSE IF a.samples # None /\ a.samples_file # None
           THEN Raise(s, SamplesConflict)
           ELSE Only({ read_tail(s2, a) :
                       s2 \in {_set_samples(RCall(s, "reset", None),
                                            a.samples, a.samples_file)} }) :
           s \in {s0} })

(* read applying the session's configuration again after the reset *)
read_reconfiguring(s0, a) ==
    Only({ IF s.mode # "r" THEN Raise(s, NotReadMode)
           ELSE Only({ IF s2.err # NoErr THEN s2 ELSE read_tail(s2, a) :
                       s2 \in {_set_samples(
                                  RCallIf(self_cfg # None /\ self_cfg[1].limit # None,
                                          RCall(s, "reset", None),
                                          "set_max_num_records", 1),
                                  a.samples, a.samples_file)} }) :
           s \in {s0} })

(* Dataset.read; a is the record of its arguments *)
read(s0, a) ==
    Only({ IF s.mode # "r" THEN Raise(s, NotReadMode)
           ELSE Only({ IF s2.err # NoErr THEN s2 ELSE read_tail(s2, a) :
                       s2 \in {_set_samples(RCall(s, "reset", None),
                                            a.samples, a.samples_file)} }) :
           s \in {s0} })

(* count returning the record count without looking at read_completed() *)
count_unchecked(s0, samples, regions) ==
    Only({ IF s.mode # "r" THEN Raise(s, NotReadMode)
           ELSE LET samples_ == IF samples = None THEN <<>> ELSE samples[1]
                    regions_ == IF regions = None THEN <<>> ELSE regions[1]
                    s1 == RCall(s, "reset", None)
                    s2 == RCall(s1, "set_samples", JoinCSV(samples_))
                    s3 == RCall(s2, "set_regions", JoinCSV(regions_))
                    s4 == RCall(s3, "read", None)
                IN Only({ Return(RCall(c, "result_num_records", None),
                                 reader_result_num_records(c.reader)) :
                          c \in {read_completed(s4)} }) :
           s \in {s0} })

(* Dataset.count *)
count(s0, samples, regions) ==
    Only({ IF s.mode # "r" THEN Raise(s, NotReadMode)
           ELSE LET samples_ == IF samples = None THEN <<>> ELSE samples[1]
                    regions_ == IF regions = None THEN <<>> ELSE regions[1]
                    s1 == RCall(s, "reset", None)
                    s2 == RCall(s1, "set_samples", JoinCSV(samples_))
                    s3 == RCall(s2, "set_regions", JoinCSV(regions_))
                    s4 == RCall(s3, "read", None)
                IN Only({ IF ~c.ret[1] THEN Raise(c, CountIncomplete)
                          ELSE Return(RCall(c, "result_num_records", None),
                                      reader_result_num_records(c.reader)) :
                          c \in {read_completed(s4)} }) :
           s \in {s0} })

(* The generator object of Dataset.read_iter.  pc is where its frame stands:
   "created" (body not entered), "yield_read" (suspended at the yield of
   line 165), "yield_continue" (suspended at the yield of line 167), "done"
   (returned) or "raised" (left by an exception).  The result is the session
   outcome s and the frame's new position. *)

(* the loop going on without looking at read_completed() *)
read_iter_loop_unchecked(s0) ==
    Only({ [s |-> continue_read(c), pc |-> "yield_continue"] :
           c \in {read_completed(s0)} })

(* the loop with its condition inverted *)
read_iter_loop_inverted(s0) ==
    Only({ IF c.ret[1]
           THEN [s |-> continue_read(c), pc |-> "yield_continue"]
           ELSE [s |-> [c EXCEPT !.ret = None], pc |-> "done"] :
           c \in {read_completed(s0)} })

(* the loop of lines 166-167, entered from session outcome s0 *)
read_iter_loop(s0) ==
    Only({ IF ~c.ret[1]
           THEN [s |-> continue_read(c), pc |-> "yield_continue"]
           ELSE [s |-> [c EXCEPT !.ret = None], pc |-> "done"] :
           c \in {read_completed(s0)} })

(* lines 164-165, then the loop when line 165 is skipped *)
read_iter_head(s0, a) ==
    Only({ IF ~c.ret[1]
           THEN Only({ [s |-> y,
                        pc |-> IF y.err # NoErr THEN "raised" ELSE "yield_read"] :
                       y \in {read(c, a)} })
           ELSE read_iter_loop(c) :
           c \in {read_completed(s0)} })

(* one next() on the generator: from pc to the next yield, return or raise *)
read_iter_next(s, pc, a) ==
    IF pc = "created"
    THEN IF s.mode # "r" THEN [s |-> Raise(s, NotReadMode), pc |-> "raised"]
         ELSE read_iter_head(s, a)
    ELSE read_iter_loop(s)

----------------------------------------------------------------------------
(* The engine write handle (libtiledbvcf.Writer) and the dataset behind it *)

NewWriter ==
    [extra_attributes |-> None, tile_capacity |-> None, anchor_gap |-> None,
     checksum |-> None, allow_duplicates |-> None, num_threads |-> None,
     memory_budget |-> None, scratch_space |-> None,
     sample_batch_size |-> None, samples |-> None, tiledb_config |-> None]

(* one engine call on the write handle *)
WriterApply(w, fn, arg) ==
    CASE fn = "set_extra_attributes" -> [w EXCEPT !.extra_attributes = Some(arg)]
      [] fn = "set_tile_capacity" -> [w EXCEPT !.tile_capacity = Some(arg)]
      [] fn = "set_anchor_gap" -> [w EXCEPT !.anchor_gap = Some(arg)]
      [] fn = "set_checksum" -> [w EXCEPT !.checksum = Some(arg)]
      [] fn = "set_allow_duplicates" -> [w EXCEPT !.allow_duplicates = Some(arg)]
      [] fn = "set_num_threads" -> [w EXCEPT !.num_threads = Some(arg)]
      [] fn = "set_memory_budget" -> [w EXCEPT !.memory_budget = Some(arg)]
      [] fn = "set_scratch_space" -> [w EXCEPT !.scratch_space = Some(arg)]
      [] fn = "set_sample_batch_size" -> [w EXCEPT !.sample_batch_size = Some(arg)]
      [] fn = "set_samples" -> [w EXCEPT !.samples = Some(arg)]
      [] fn = "set_tiledb_config" -> [w EXCEPT !.tiledb_config = Some(arg)]
      [] OTHER -> w

(* the effect of an engine call on the dataset: create_dataset() creates it
   from the handle's schema parameters unless it exists; register_samples()
   and ingest_samples() add the handle's sample list *)
StoreApply(st, w, fn) ==
    CASE fn = "create_dataset" ->
            IF st.exists THEN st
            ELSE [st EXCEPT !.exists = TRUE,
                            !.schema = Some(<<w.extra_attributes, w.tile_capacity,
                                              w.anchor_gap, w.checksum,
                                              w.allow_duplicates>>)]
      [] fn = "register_samples" ->
            [st EXCEPT !.registered = @ \cup SplitCSV(w.samples[1], <<>>)]
      [] fn = "ingest_samples" ->
            [st EXCEPT !.ingested = @ \cup SplitCSV(w.samples[1], <<>>)]
      [] OTHER -> st

(* self.writer.fn(arg) *)
WCall(s, fn, arg) ==
    Only({ [x EXCEPT !.writer = WriterApply(x.writer, fn, arg),
                     !.store = StoreApply(x.store, x.writer, fn),
                     !.calls = Append(x.calls, [fn |-> fn, arg |-> arg])] :
           x \in {s} })

(* self.writer.fn(arg) under a condition of the code *)
WCallIf(cond, s, fn, arg) == IF cond THEN WCall(s, fn, arg) ELSE s

----------------------------------------------------------------------------
(* Dataset: the write session *)

(* Dataset.schema_version *)
schema_version(s0) ==
    Only({ IF s.mode # "r"
           THEN Return(WCall(s, "get_schema_version", None), s.store.version)
           ELSE Return(RCall(s, "get_schema_version", None), s.store.version) :
           s \in {s0} })

(* create_dataset applying the schema parameters without the create call *)
create_dataset_no_create(s0, a) ==
    Only({ IF s.mode # "w" THEN Raise(s, NotWriteMode)
           ELSE LET extra_attrs == IF a.extra_attrs = None THEN <<>>
                                   ELSE a.extra_attrs[1]
                    s1 == WCall(s, "set_extra_attributes", JoinCSV(extra_attrs))
                    s2 == WCallIf(a.tile_capacity # None, s1,
                                  "set_tile_capacity", a.tile_capacity[1])
                    s3 == WCallIf(a.anchor_gap # None, s2,
                                  "set_anchor_gap", a.anchor_gap[1])
                    s4 == WCallIf(a.checksum_type # None, s3,
                                  "set_checksum", Lower(a.checksum_type[1]))
                IN WCall(s4, "set_allow_duplicates", a.allow_duplicates) :
           s \in {s0} })

(* Dataset.create_dataset; a is the record of its arguments *)
create_dataset(s0, a) ==
    Only({ IF s.mode # "w" THEN Raise(s, NotWriteMode)
           ELSE LET extra_attrs == IF a.extra_attrs = None THEN <<>>
                                   ELSE a.extra_attrs[1]
                    s1 == WCall(s, "set_extra_attributes", JoinCSV(extra_attrs))
                    s2 == WCallIf(a.tile_capacity # None, s1,
                                  "set_tile_capacity", a.tile_capacity[1])
                    s3 == WCallIf(a.anchor_gap # None, s2,
                                  "set_anchor_gap", a.anchor_gap[1])
                    s4 == WCallIf(a.checksum_type # None, s3,
                                  "set_checksum", Lower(a.checksum_type[1]))
                    s5 == WCall(s4, "set_allow_duplicates", a.allow_duplicates)
                IN WCall(s5, "create_dataset", None) :
           s \in {s0} })

(* the tail of ingest_samples registering the samples whatever the version *)
ingest_tail_register_always(s, a) ==
    LET s1 == WCallIf(a.sample_batch_size # None, s,
                      "set_sample_batch_size", a.sample_batch_size[1])
        s2 == WCall(s1, "set_samples", JoinCSV(a.sample_uris[1]))
    IN Only({ [WCall(WCall(v, "register_samples", None),
                     "ingest_samples", None) EXCEPT !.ret = None] :
              v \in {schema_version(s2)} })

(* lines 294-302 of Dataset.ingest_samples: batch size, sample list, the
   registration of a dataset below version 4, the ingest call *)
ingest_tail(s, a) ==
    LET s1 == WCallIf(a.sample_batch_size # None, s,
                      "set_sample_batch_size", a.sample_batch_size[1])
        s2 == WCall(s1, "set_samples", JoinCSV(a.sample_uris[1]))
    IN Only({ [WCall(WCallIf(v.ret[1] < 4, v, "register_samples", None),
                     "ingest_samples", None) EXCEPT !.ret = None] :
              v \in {schema_version(s2)} })

(* ingest_samples without the check of a partial scratch configuration *)
ingest_samples_no_scratch_check(s0, a) ==
    Only({ IF s.mode # "w" THEN Raise(s, NotWriteMode)
           ELSE IF a.sample_uris = None THEN s
           ELSE LET s1 == WCallIf(a.threads # None, s,
                                  "set_num_threads", a.threads[1])
                    s2 == WCallIf(a.memory_budget # None, s1,
                                  "set_memory_budget", a.memory_budget[1])
                IN IF a.scratch_space_path # None /\ a.scratch_space_size # None
                   THEN ingest_tail(
                            WCall(s2, "set_scratch_space",
                                  <<a.scratch_space_path[1],
                                    a.scratch_space_size[1]>>), a)
                   ELSE ingest_tail(s2, a) :
           s \in {s0} })

(* Dataset.ingest_samples; a is the record of its arguments *)
ingest_samples(s0, a) ==
    Only({ IF s.mode # "w" THEN Raise(s, NotWriteMode)
           ELSE IF a.sample_uris = None THEN s
           ELSE LET s1 == WCallIf(a.threads # None, s,
                                  "set_num_threads", a.threads[1])
                    s2 == WCallIf(a.memory_budget # None, s1,
                                  "set_memory_budget", a.memory_budget[1])
                IN IF a.scratch_space_path # None /\ a.scratch_space_size # None
                   THEN ingest_tail(
                            WCall(s2, "set_scratch_space",
                                  <<a.scratch_space_path[1],
                                    a.scratch_space_size[1]>>), a)
                   ELSE IF a.scratch_space_path # None \/ a.scratch_space_size # None
                   THEN Raise(s2, ScratchIncomplete)
                   ELSE ingest_tail(s2, a) :
           s \in {s0} })

----------------------------------------------------------------------------
(* Dataset.attributes: the attribute classifier *)

(* the attribute names of the model, in sorted() order *)
NameOrder == <<"alleles", "fmt", "fmt_GT", "info", "info_DP", "pos_start">>

(* sorted(list(S)) for a set S of attribute names *)
RECURSIVE SortedFrom(_, _)
SortedFrom(S, i) ==
    IF i > Len(NameOrder) THEN <<>>
    ELSE (IF NameOrder[i] \in S THEN <<NameOrder[i]>> ELSE <<>>)
         \o SortedFrom(S, i + 1)

Range(f) == {f[i] : i \in DOMAIN f}

_queryable_attrs(s) ==
    RCall(Return(s, s.store.queryable), "get_queryable_attributes", None)
_fmt_attrs(s) == RCall(Return(s, s.store.fmt), "get_fmt_attributes", None)
_info_attrs(s) == RCall(Return(s, s.store.info), "get_info_attributes", None)

(* the else branch leaving the INFO and FORMAT attributes in "builtin" *)
attributes_diff_keep_typed(s, attr_type) ==
    Only({ Return(q, SortedFrom(Range(q.ret[1]) \ {"info", "fmt"}, 1)) :
           q \in {_queryable_attrs(s)} })

(* lines 356-359 of Dataset.attributes, for "all" and "builtin" *)
attributes_diff(s, attr_type) ==
    Only({ IF attr_type = "builtin"
           THEN Only({ Only({ Return(f, SortedFrom(
                                  (Range(q.ret[1]) \ {"info", "fmt"})
                                    \ Range(i.ret[1] \o f.ret[1]), 1)) :
                              f \in {_fmt_attrs(i)} }) :
                       i \in {_info_attrs(q)} })
           ELSE Return(q, SortedFrom(Range(q.ret[1]) \ {"info", "fmt"}, 1)) :
           q \in {_queryable_attrs(s)} })

(* Dataset.attributes *)
attributes(s0, attr_type) ==
    Only({ IF s.mode # "r" THEN Raise(s, AttrsNotReadMode)
           ELSE IF attr_type \notin {"all", "info", "fmt", "builtin"}
           THEN Raise(s, BadAttrType)
           ELSE IF attr_type = "info" THEN _info_attrs(s)
           ELSE IF attr_type = "fmt" THEN _fmt_attrs(s)
           ELSE attributes_diff(s, attr_type) :
           s \in {s0} })

----------------------------------------------------------------------------
(* Session construction and the configuration translator *)

CfgUnset ==
    [limit |-> None, region_partition |-> None, sample_partition |-> None,
     sort_regions |-> None, memory_budget_mb |-> None, tiledb_config |-> None]

(* "{}={}".format(key, value) for every entry of a mapping whose value is
   not the empty string, in iteration order *)
RECURSIVE FormatItems(_)
FormatItems(items) ==
    IF items = <<>> THEN <<>>
    ELSE (IF Head(items)[2] # <<>>
          THEN <<Head(items)[1] \o <<"=">> \o Head(items)[2]>>
          ELSE <<>>) \o FormatItems(Tail(items))

(* lines 72-93 and 100-121: the override list of the three accepted forms;
   a tiledb.Config object is read only when the tiledb package imports *)
tiledb_config_list(tc) ==
    IF tc.kind = "list" THEN tc.items
    ELSE IF tc.kind = "dict" THEN FormatItems(tc.items)
    ELSE IF tc.importable THEN FormatItems(tc.items)
    ELSE <<>>

(* _set_read_cfg passing over the region-sort flag *)
_set_read_cfg_no_sort(s, cfg) ==
    IF cfg = None THEN s
    ELSE LET c == cfg[1]
             s1 == RCallIf(c.limit # None, s,
                           "set_max_num_records", c.limit[1])
             s2 == RCallIf(c.region_partition # None, s1,
                           "set_region_partition", c.region_partition[1])
             s3 == RCallIf(c.sample_partition # None, s2,
                           "set_sample_partition", c.sample_partition[1])
             s5 == RCallIf(c.memory_budget_mb # None, s3,
                           "set_memory_budget", c.memory_budget_mb[1])
         IN RCallIf(c.tiledb_config # None, s5, "set_tiledb_config",
                    JoinCSV(tiledb_config_list(c.tiledb_config[1])))

(* Dataset._set_read_cfg *)
_set_read_cfg(s, cfg) ==
    IF cfg = None THEN s
    ELSE LET c == cfg[1]
             s1 == RCallIf(c.limit # None, s,
                           "set_max_num_records", c.limit[1])
             s2 == RCallIf(c.region_partition # None, s1,
                           "set_region_partition", c.region_partition[1])
             s3 == RCallIf(c.sample_partition # None, s2,
                           "set_sample_partition", c.sample_partition[1])
             s4 == RCallIf(c.sort_regions # None, s3,
                           "set_sort_regions", c.sort_regions[1])
             s5 == RCallIf(c.memory_budget_mb # None, s4,
                           "set_memory_budget", c.memory_budget_mb[1])
         IN RCallIf(c.tiledb_config # None, s5, "set_tiledb_config",
                    JoinCSV(tiledb_config_list(c.tiledb_config[1])))

(* Dataset._set_write_cfg *)
_set_write_cfg(s, cfg) ==
    IF cfg = None THEN s
    ELSE WCallIf(cfg[1].tiledb_config # None, s, "set_tiledb_config",
                 JoinCSV(tiledb_config_list(cfg[1].tiledb_config[1])))

(* Dataset.__init__ for mode "r" or "w" on dataset st *)
__init__(m, c, st) ==
    LET s == [mode |-> m, reader |-> NewReader, writer |-> NewWriter,
              store |-> st, calls |-> <<>>, err |-> NoErr, ret |-> None]
    IN IF m = "r"
       THEN LET s1 == _set_read_cfg(s, c)
                s2 == RCall(s1, "init", None)
                s3 == RCall(s2, "set_tiledb_stats_enabled", FALSE)
            IN RCall(s3, "set_verbose", FALSE)
       ELSE LET s1 == _set_write_cfg(s, c)
                s2 == WCall(s1, "init", None)
            IN WCall(s2, "set_verbose", FALSE)

----------------------------------------------------------------------------
(* Inputs *)

Opt(S) == {None} \cup {Some(x) : x \in S}

Cfgs ==
    { None,
      Some(CfgUnset),
      Some([limit |-> Some(3), region_partition |-> Some(<<0, 2>>),
            sample_partition |-> Some(<<1, 2>>), sort_regions |-> Some(TRUE),
            memory_budget_mb |-> Some(1),
            tiledb_config |-> Some([kind |-> "dict",
                                    items |-> << <<<<"k">>, <<"v">>>>,
                                                 <<<<"e">>, <<>>>> >>])]),
      Some([CfgUnset EXCEPT
              !.region_partition = Some(<<2, 2>>),
              !.tiledb_config = Some([kind |-> "list",
                                      items |-> <<<<"k", "=", "v">>>>])]) }

ReadArgs ==
    { [attrs |-> <<AttrPos>>, samples |-> None, regions |-> None,
       samples_file |-> None, bed_file |-> None],
      [attrs |-> <<AttrPos>>, samples |-> Some(<<SampleA>>), regions |-> None,
       samples_file |-> None, bed_file |-> None],
      [attrs |-> <<AttrPos>>, samples |-> None, regions |-> Some(<<Region1>>),
       samples_file |-> Some(SamplesFileF), bed_file |-> Some(BedFile)],
      [attrs |-> <<AttrPos>>, samples |-> Some(<<SampleA>>), regions |-> None,
       samples_file |-> Some(SamplesFileF), bed_file |-> None],
      [attrs |-> <<AttrPos>>, samples |-> Some(<<SampleA, SampleB>>),
       regions |-> Some(<<Region1>>), samples_file |-> Some(SamplesFileF),
       bed_file |-> Some(BedFile)] }

(* the arguments read_iter is called with *)
ReadIterArgs ==
    { a \in ReadArgs : a.samples_file # None \/ a.samples = None }
    \ { a \in ReadArgs : a.samples # None /\ a.bed_file # None }

CountArgs ==
    { [samples |-> None, regions |-> None],
      [samples |-> Some(<<SampleA>>), regions |-> Some(<<Region1>>)] }

CreateArgs ==
    { [extra_attrs |-> None, tile_capacity |-> None, anchor_gap |-> None,
       checksum_type |-> None, allow_duplicates |-> TRUE],
      [extra_attrs |-> Some(<<<<"x">>>>), tile_capacity |-> Some(1),
       anchor_gap |-> Some(1), checksum_type |-> Some(<<"M", "D", "5">>),
       allow_duplicates |-> FALSE] }

SampleUri == <<"u">>
ScratchPath == <<"s">>

IngestArgs ==
    { [sample_uris |-> u, threads |-> None, memory_budget |-> None,
       scratch_space_path |-> p, scratch_space_size |-> z,
       sample_batch_size |-> None] :
         u \in {None, Some(<<>>), Some(<<SampleUri>>)},
         p \in Opt({ScratchPath}), z \in Opt({1}) }
    \cup
    { [sample_uris |-> Some(<<SampleUri>>), threads |-> Some(1),
       memory_budget |-> Some(1), scratch_space_path |-> p,
       scratch_space_size |-> z, sample_batch_size |-> Some(1)] :
         p \in Opt({ScratchPath}), z \in Opt({1}) }

AttrTypes == {"all", "info", "fmt", "builtin", "other"}

(* The datasets a session is opened on.  A read session needs an existing
   dataset and never reads its schema version; a write session never reads
   the records, and may be opened before the dataset is created, which the
   engine then creates at its current schema version. *)
Datasets(m) ==
    IF m = "r"
    THEN [data : [SampleNames -> 0..MaxRecs], version : {4}, exists : {TRUE},
          schema : {Some(<<None, None, None, None, None>>)},
          registered : {{}}, ingested : {{}},
          queryable : {<<"pos_start", "alleles", "fmt", "info", "fmt_GT", "info_DP">>},
          info : {<<"info_DP">>}, fmt : {<<"fmt_GT">>}]
    ELSE { [data |-> [n \in SampleNames |-> 0], version |-> ve[1],
            exists |-> ve[2],
            schema |-> IF ve[2] THEN Some(<<None, None, None, None, None>>)
                       ELSE None,
            registered |-> {}, ingested |-> {},
            queryable |-> <<"pos_start", "alleles", "fmt", "info", "fmt_GT", "info_DP">>,
            info |-> <<"info_DP">>, fmt |-> <<"fmt_GT">>] :
           ve \in {<<3, TRUE>>, <<4, TRUE>>, <<4, FALSE>>} }

----------------------------------------------------------------------------
(* The reference drain: read(...) once, then continue_read() until
   read_completed() is true *)

RECURSIVE manual_loop(_, _, _)
manual_loop(s0, rows, fuel) ==
    Only({ IF c.ret[1] \/ fuel = 0
           THEN [rows |-> rows, completed |-> c.ret[1], err |-> NoErr]
           ELSE Only({ manual_loop(y, rows + y.ret[1], fuel - 1) :
                       y \in {continue_read(c)} }) :
           c \in {read_completed(s0)} })

manual_drain(s, a) ==
    Only({ IF r.err # NoErr
           THEN [rows |-> 0, completed |-> reader_completed(r.reader),
                 err |-> r.err]
           ELSE manual_loop(r, r.ret[1], SumOver(s.store.data, SampleNames) + 1) :
           r \in {read(s, a)} })

----------------------------------------------------------------------------
(* Bookkeeping of what an operation did *)

(* a handle on which reset() would change nothing: no selection, no unit read *)
Fresh(r) == r = reader_reset(r)

(* Read units since the latest reset, after an operation that issued the
   engine calls cs and left the handle with completed() = done.  Every
   operation issues at most one unit, and none before a reset of its own. *)
UnitsAfter(u, cs, done) ==
    LET reads == Cardinality({i \in DOMAIN cs : cs[i].fn = "read"})
        base == IF \E i \in DOMAIN cs : cs[i].fn = "reset"
                THEN [issued |-> 0, complete |-> 0] ELSE u
    IN [issued |-> base.issued + reads,
        complete |-> base.complete + (IF done THEN reads ELSE 0)]

NoGen ==
    [pc |-> "none", args |-> None, chunks |-> <<>>, flags |-> <<>>,
     clean |-> TRUE, fresh |-> FALSE,
     manual |-> [rows |-> 0, completed |-> FALSE, err |-> NoErr]]

(* the session after an operation with outcome s *)
Commit(s, op) ==
    /\ mode' = s.mode
    /\ self_cfg' = self_cfg
    /\ reader' = s.reader
    /\ writer' = s.writer
    /\ store' = s.store
    /\ calls' = s.calls
    /\ last' = [op |-> op, err |-> s.err, ret |-> s.ret]
    /\ units' = UnitsAfter(units, s.calls, reader_completed(s.reader))

(* A session call made while the generator is suspended is interleaved: the
   record of what the generator produced is then dropped.  A generator that
   has returned or raised is released by the next session call. *)
Interleave ==
    gen' = IF gen.pc \in {"yield_read", "yield_continue"}
           THEN [NoGen EXCEPT !.pc = gen.pc, !.args = gen.args, !.clean = FALSE]
           ELSE IF gen.pc \in {"done", "raised"} THEN NoGen
           ELSE gen

Release ==
    gen' = IF gen.pc \in {"done", "raised"} THEN NoGen ELSE gen

----------------------------------------------------------------------------
(* The operations *)

Init ==
    \E m \in {"r", "w"}, c \in Cfgs :
      \E st \in Datasets(m) :
        \E s \in {__init__(m, c, st)} :
           /\ mode = s.mode
           /\ self_cfg = c
           /\ reader = s.reader
           /\ writer = s.writer
           /\ store = s.store
           /\ calls = s.calls
           /\ gen = NoGen
           /\ last = [op |-> "__init__", err |-> NoErr, ret |-> None]
           /\ units = [issued |-> 0, complete |-> 0]

Read ==
    \E a \in ReadArgs :
      \E o \in {read(Begin, a)} :
        /\ Commit(o, "read")
        /\ Interleave

(* calling read_iter only creates the generator: no line of its body runs *)
ReadIter ==
    \E a \in ReadIterArgs :
      /\ gen' = [NoGen EXCEPT !.pc = "created", !.args = Some(a)]
      /\ last' = [op |-> "read_iter", err |-> NoErr, ret |-> None]
      /\ calls' = <<>>
      /\ UNCHANGED <<mode, self_cfg, reader, writer, store, units>>

(* next() on the generator *)
GenNext ==
    /\ gen.pc \in {"created", "yield_read", "yield_continue"}
    /\ \E n \in {read_iter_next(Begin, gen.pc, gen.args[1])} :
         \E g \in {IF gen.pc = "created"
                   THEN [gen EXCEPT !.clean = TRUE, !.fresh = Fresh(reader),
                                    !.manual = manual_drain(Begin, gen.args[1])]
                   ELSE gen} :
           LET yielded == n.pc \in {"yield_read", "yield_continue"}
           IN /\ gen' = [g EXCEPT !.pc = n.pc,
                            !.chunks = IF yielded /\ g.clean
                                       THEN Append(@, n.s.ret[1]) ELSE @,
                            !.flags = IF yielded /\ g.clean
                                      THEN Append(@, reader_completed(n.s.reader))
                                      ELSE @]
              /\ Commit(n.s, "next")

ContinueRead ==
    /\ units.complete < MaxComplete
    /\ \E o \in {continue_read(Begin)} :
         /\ Commit(o, "continue_read")
         /\ Interleave

ReadCompleted ==
    \E o \in {read_completed(Begin)} :
      /\ Commit(o, "read_completed")
      /\ Release

Count ==
    \E a \in CountArgs :
      \E o \in {count(Begin, a.samples, a.regions)} :
        /\ Commit(o, "count")
        /\ Interleave

Attributes ==
    \E k \in AttrTypes :
      \E o \in {attributes(Begin, k)} :
        /\ Commit(o, "attributes")
        /\ Release

CreateDataset ==
    \E a \in CreateArgs :
      \E o \in {create_dataset(Begin, a)} :
        /\ Commit(o, "create_dataset")
        /\ Release

IngestSamples ==
    \E a \in IngestArgs :
      \E o \in {ingest_samples(Begin, a)} :
        /\ Commit(o, "ingest_samples")
        /\ Release

Next ==
    \/ Read
    \/ ReadIter
    \/ GenNext
    \/ ContinueRead
    \/ ReadCompleted
    \/ Count
    \/ Attributes
    \/ CreateDataset
    \/ IngestSamples

Spec == Init /\ [][Next]_vars

(* The drain scenario: one read(...) on the session as constructed, then
   continue_read() calls for as long as the caller goes on.  Every call is
   synchronous and returns, so a caller that keeps calling gets its next
   call. *)
DrainRead ==
    /\ last.op = "__init__"
    /\ Read

DrainNext ==
    \/ DrainRead
    \/ ContinueRead

SpecDrain == Init /\ [][DrainNext]_vars /\ WF_vars(ContinueRead)

----------------------------------------------------------------------------
(* Vocabulary of the properties *)

Fns(cs) == [i \in DOMAIN cs |-> cs[i].fn]

NumCalls(cs, fn) == Cardinality({i \in DOMAIN cs : cs[i].fn = fn})

RECURSIVE SumSeq(_)
SumSeq(q) == IF q = <<>> THEN 0 ELSE Head(q) + SumSeq(Tail(q))

CeilDiv(n, k) == (n + k - 1) \div k

Suspended == {"yield_read", "yield_continue"}

BothSamples(a) == a.samples # None /\ a.samples_file # None

OneScratch(a) ==
    (a.scratch_space_path # None) # (a.scratch_space_size # None)

----------------------------------------------------------------------------
(* C1: the first next() on a generator returned by read_iter, on a read
   session in any state, produces the result of read(...) with the
   generator's arguments: the handle is left as read leaves it, with one
   reset and one read unit issued, and unless read raises the sequence has
   its first element. *)
C1_FirstElementIsRead ==
    [][(gen.pc = "created" /\ last'.op = "next" /\ mode = "r") =>
        \E o \in {read(Begin, gen.args[1])} :
          /\ reader' = o.reader
          /\ last'.err = o.err
          /\ last'.ret = o.ret
          /\ NumCalls(calls', "reset") = 1
          /\ o.err = NoErr =>
               /\ gen'.pc = "yield_read"
               /\ NumCalls(calls', "read") = 1]_vars

(* C2: while a generator is consumed with no other session call in between,
   read_completed() was false after every element but the latest, the
   sequence ends at the next() that follows the first element after which
   it is true and goes on otherwise, and no next() issues a read unit on a
   handle that reports completed. *)
C2_FlagsInv ==
    (gen.clean /\ gen.pc \in Suspended \cup {"done"}) =>
       /\ \A i \in 1..(Len(gen.flags) - 1) : ~gen.flags[i]
       /\ gen.pc \in Suspended =>
            /\ gen.flags # <<>>
            /\ gen.flags[Len(gen.flags)] = reader_completed(reader)
       /\ (gen.pc = "done" /\ gen.flags # <<>>) => gen.flags[Len(gen.flags)]

C2_NextStep ==
    (last'.op = "next" /\ mode = "r") =>
       /\ reader_completed(reader) => NumCalls(calls', "read") = 0
       /\ (gen.clean /\ gen.pc \in Suspended) =>
            IF reader_completed(reader)
            THEN gen'.pc = "done" /\ reader' = reader
            ELSE gen'.pc = "yield_continue" /\ NumCalls(calls', "read") = 1

C2_EndsAtCompletion == []C2_FlagsInv /\ [][C2_NextStep]_vars

C2_Witness ==
    /\ gen.clean
    /\ gen.pc = "done"
    /\ Len(gen.chunks) >= 2

(* C3: a generator consumed to its end with no other session call in
   between has yielded as many rows in total, and leaves the same
   read_completed(), as read(...) followed by continue_read() until
   read_completed() from the same session state, when that read succeeds. *)
C3_SameAsManualLoop ==
    (gen.pc = "done" /\ gen.clean /\ gen.manual.err = NoErr) =>
       /\ SumSeq(gen.chunks) = gen.manual.rows
       /\ reader_completed(reader) = gen.manual.completed

C4_CompleteIffReported ==
    mode = "r" => (reader_completed(reader) <=> units.complete >= 1)

C4_ExtraOnlyAfterCompleted ==
    units'.complete >= 2 =>
       /\ reader_completed(reader)
       /\ last'.op = "continue_read"
       /\ units'.complete = units.complete + 1

ChunksAre(m, N, k) ==
    /\ Len(gen.chunks) = m
    /\ Len(gen.flags) = m
    /\ \A i \in 1..(m - 1) : gen.chunks[i] = k /\ ~gen.flags[i]
    /\ m >= 1 => (gen.chunks[m] = N - (m - 1) * k /\ gen.flags[m])

FreshDrain == gen.pc = "done" /\ gen.clean /\ gen.fresh

C6_BothSamplesRaises ==
    mode = "r" =>
       \A a \in ReadArgs :
          BothSamples(a) => read(Begin, a).err \in ConflictingSelection

C6_Witness ==
    /\ mode = "r"
    /\ last.op = "read"
    /\ last.err \in ConflictingSelection
    /\ units.issued = 0

(* C7: count on a read session issues reset, set_samples, set_regions and
   one read unit, sets no attribute, samples file or region file, and then
   returns the record count the engine reports if the engine reports
   completed, and raises the inconsistent-state error otherwise. *)
C7_CountOneUnit ==
    (mode = "r" /\ last.op = "count") =>
       /\ SubSeq(Fns(calls), 1, 5) =
            <<"reset", "set_samples", "set_regions", "read", "completed">>
       /\ reader.attributes = <<>>
       /\ reader.samples_file = None
       /\ reader.bed_file = None
       /\ units.issued = 1
       /\ IF reader_completed(reader)
          THEN /\ last.err = NoErr
               /\ last.ret = Some(reader_result_num_records(reader))
               /\ last.ret = Some(Matching(reader))
               /\ Fns(calls) = <<"reset", "set_samples", "set_regions", "read",
                                 "completed", "result_num_records">>
          ELSE /\ last.err \in InconsistentState
               /\ last.ret = None
               /\ Len(calls) = 5

C7_Witness ==
    /\ mode = "r"
    /\ last.op = "count"
    /\ last.err \in InconsistentState

(* C8: the mode never changes, and an operation called on a session of the
   other mode raises the invalid-mode error at that call, with no engine
   call. *)
ReadOnlyOps ==
    {"read", "read_iter", "continue_read", "read_completed", "count",
     "attributes"}

WriteOnlyOps == {"create_dataset", "ingest_samples"}

C8_WrongModeFails ==
    /\ mode \in {"r", "w"}
    /\ ((mode = "w" /\ last.op \in ReadOnlyOps)
          \/ (mode = "r" /\ last.op \in WriteOnlyOps)) =>
         /\ last.err \in InvalidMode
         /\ calls = <<>>

(* C9 as stated: on a write session ingest_samples with exactly one of
   scratch_space_path and scratch_space_size raises the incomplete-scratch
   error and issues no ingest call, whatever its other arguments. *)
C9_OneScratchRaises ==
    mode = "w" =>
       \A a \in IngestArgs :
          OneScratch(a) =>
             \E o \in {ingest_samples(Begin, a)} :
                /\ o.err \in IncompleteScratchConfig
                /\ NumCalls(o.calls, "ingest_samples") = 0

(* C9, amended: so it is when sample_uris is supplied; when sample_uris is
   unset the call returns without an error and without an engine call. *)
C9_OneScratchRaisesWithUris ==
    mode = "w" =>
       \A a \in IngestArgs :
          OneScratch(a) =>
             \E o \in {ingest_samples(Begin, a)} :
                IF a.sample_uris # None
                THEN /\ o.err \in IncompleteScratchConfig
                     /\ NumCalls(o.calls, "ingest_samples") = 0
                ELSE o.err = NoErr /\ o.calls = <<>>

C9_Witness ==
    /\ mode = "w"
    /\ last.op = "ingest_samples"
    /\ last.err \in IncompleteScratchConfig

(* C10: on a write session ingest_samples with sample_uris unset or empty,
   and no partial scratch configuration, issues no engine call and leaves
   the write handle as it was. *)
C10_NoUrisNoCalls ==
    mode = "w" =>
       \A a \in IngestArgs :
          (a.sample_uris \in {None, Some(<<>>)} /\ ~OneScratch(a)) =>
             \E o \in {ingest_samples(Begin, a)} :
                /\ o.calls = <<>>
                /\ o.writer = writer
                /\ o.err = NoErr


----------------------------------------------------------------------------
(* The configuration fields and the engine setter of each *)

CfgFields ==
    <<"limit", "region_partition", "sample_partition", "sort_regions",
      "memory_budget_mb", "tiledb_config">>

CfgSetter ==
    [limit |-> "set_max_num_records",
     region_partition |-> "set_region_partition",
     sample_partition |-> "set_sample_partition",
     sort_regions |-> "set_sort_regions",
     memory_budget_mb |-> "set_memory_budget",
     tiledb_config |-> "set_tiledb_config"]

(* the fields the configuration step of a session of mode m reads *)
FieldsRead(m) == IF m = "r" THEN CfgFields ELSE <<"tiledb_config">>

Present(c, f) == c # None /\ c[1][f] # None

(* the value the setter of field f is handed for configuration c *)
SetterArg(c, f) ==
    IF f = "tiledb_config"
    THEN JoinCSV(tiledb_config_list(c[1].tiledb_config[1]))
    ELSE c[1][f][1]

(* the configuration calls among the engine calls cs, in order *)
ConfigCalls(cs) ==
    SelectSeq(cs, LAMBDA x : x.fn \in Range(CfgSetter))

(* the calls expected for the fields fs of configuration c, in field order *)
RECURSIVE ExpectedCalls(_, _)
ExpectedCalls(c, fs) ==
    IF fs = <<>> THEN <<>>
    ELSE (IF Present(c, Head(fs))
          THEN <<[fn |-> CfgSetter[Head(fs)], arg |-> SetterArg(c, Head(fs))]>>
          ELSE <<>>) \o ExpectedCalls(c, Tail(fs))

Constructed == last.op = "__init__"

(* C11 as stated: construction issues one configuration call for every
   field of the configuration that is present, and none for a field that is
   unset, in a session of either mode. *)
C11_OneCallPerPresentField ==
    Constructed =>
       \A i \in DOMAIN CfgFields :
          NumCalls(calls, CfgSetter[CfgFields[i]]) =
             IF Present(self_cfg, CfgFields[i]) THEN 1 ELSE 0

(* C11, amended: a read session issues, in field order, one call for every
   present field of its six, handing it the field's value, and none for an
   unset field; a write session does so for the override list alone and
   passes over every other field; an absent or all-unset configuration
   issues no configuration call. *)
C11_OneCallPerFieldRead ==
    Constructed =>
       /\ ConfigCalls(calls) = ExpectedCalls(self_cfg, FieldsRead(mode))
       /\ self_cfg \in {None, Some(CfgUnset)} => ConfigCalls(calls) = <<>>

C11_Witness ==
    /\ Constructed
    /\ mode = "r"
    /\ Len(ConfigCalls(calls)) = 6


(* the configuration a handle holds *)
AppliedCfg ==
    IF mode = "r"
    THEN <<reader.max_num_records, reader.region_partition,
           reader.sample_partition, reader.sort_regions, reader.memory_budget,
           reader.tiledb_config>>
    ELSE <<writer.tiledb_config>>

(* C12: construction applies the configuration before any other engine call
   and with no read unit issued; no operation after construction issues a
   configuration call of the session's mode, and the configuration the
   handle holds stays as construction left it. *)
C12_AtConstruction ==
    Constructed =>
       /\ SubSeq(calls, 1, Len(ConfigCalls(calls))) = ConfigCalls(calls)
       /\ NumCalls(calls, "read") = 0
       /\ units.issued = 0

C12_NotAgain ==
    /\ \A i \in DOMAIN calls' :
          calls'[i].fn \notin {CfgSetter[f] : f \in Range(FieldsRead(mode))}
    /\ AppliedCfg' = AppliedCfg

C12_ConfiguredOnce == []C12_AtConstruction /\ [][C12_NotAgain]_vars

C12_Witness ==
    /\ mode = "r"
    /\ Present(self_cfg, "limit")
    /\ reader.max_num_records = self_cfg[1].limit
    /\ last.op = "continue_read"
    /\ units.issued >= 2


(* C13: on a write session every create_dataset() call returns without an
   error and issues one engine create call, its last; a call that finds the
   dataset present, as the second of two calls in sequence does, leaves the
   dataset as it was. *)
C13_CreateStep ==
    (mode = "w" /\ last'.op = "create_dataset") =>
       /\ last'.err = NoErr
       /\ NumCalls(calls', "create_dataset") = 1
       /\ calls'[Len(calls')].fn = "create_dataset"
       /\ store'.exists
       /\ (store.exists \/ last.op = "create_dataset") => store' = store

C13_CreateTwice == [][C13_CreateStep]_vars

C13_Witness ==
    /\ mode = "w"
    /\ last.op = "create_dataset"
    /\ last.err = NoErr
    /\ store.schema # None
    /\ store.schema[1][1] = Some(<<>>)
    /\ store.schema[1][2] = None
    /\ writer.tile_capacity = Some(1)


----------------------------------------------------------------------------
(* The attribute classifier over the attribute lists an engine may report:
   read sessions on datasets whose lists come with duplicates, out of
   order, with and without the names "info" and "fmt", and with INFO and
   FORMAT attributes inside and outside the queryable list. *)

QueryableLists ==
    { <<"pos_start", "alleles", "fmt", "info", "fmt_GT", "info_DP">>,
      <<"pos_start", "info_DP", "alleles", "pos_start", "info_DP">>,
      <<"info", "fmt_GT", "fmt">>,
      <<>> }

InfoLists == { <<>>, <<"info_DP">>, <<"info_DP", "alleles">> }

FmtLists == { <<>>, <<"fmt_GT">>, <<"fmt_GT", "fmt_GT", "info_DP">> }

AttrDatasets ==
    { [st EXCEPT !.queryable = q, !.info = i, !.fmt = f] :
        st \in { d \in Datasets("r") : \A n \in SampleNames : d.data[n] = 0 },
        q \in QueryableLists, i \in InfoLists, f \in FmtLists }

InitAttrs ==
    \E c \in Cfgs :
      \E st \in AttrDatasets :
        \E s \in {__init__("r", c, st)} :
           /\ mode = s.mode
           /\ self_cfg = c
           /\ reader = s.reader
           /\ writer = s.writer
           /\ store = s.store
           /\ calls = s.calls
           /\ gen = NoGen
           /\ last = [op |-> "__init__", err |-> NoErr, ret |-> None]
           /\ units = [issued |-> 0, complete |-> 0]

SpecAttrs == InitAttrs /\ [][Attributes]_vars

(* the value attributes(kind) returns in the current state *)
AttrsOf(kind) == attributes(Begin, kind).ret[1]

(* position of an attribute name in string order *)
NamePos(n) == CHOOSE i \in DOMAIN NameOrder : NameOrder[i] = n

(* C14: in every state of a read session, for the lists the engine
   reports, attributes("builtin") is within the union of attributes("all"),
   attributes("info") and attributes("fmt") and shares no name with
   attributes("info") or attributes("fmt"); attributes("all") holds exactly
   the queryable names other than "info" and "fmt", in strictly increasing
   string order. *)
C14_Partition ==
    mode = "r" =>
       \E all \in {AttrsOf("all")}, info \in {AttrsOf("info")},
          fmt \in {AttrsOf("fmt")}, builtin \in {AttrsOf("builtin")} :
          /\ Range(builtin) \subseteq Range(all) \cup Range(info) \cup Range(fmt)
          /\ Range(builtin) \cap (Range(info) \cup Range(fmt)) = {}
          /\ Range(all) = Range(store.queryable) \ {"info", "fmt"}
          /\ \A j \in 1..(Len(all) - 1) : NamePos(all[j]) < NamePos(all[j + 1])
          /\ info = store.info
          /\ fmt = store.fmt

C14_Witness ==
    /\ last.op = "attributes"
    /\ last.err = NoErr
    /\ Len(store.queryable) > Cardinality(Range(store.queryable))
    /\ last.ret = Some(AttrsOf("builtin"))
    /\ last.ret # Some(AttrsOf("all"))
    /\ last.ret # Some(<<>>)


----------------------------------------------------------------------------
(* the argument of the only call of fn among cs, or dflt when there is none *)
ArgOf(cs, fn, dflt) ==
    IF NumCalls(cs, fn) = 0 THEN dflt
    ELSE cs[CHOOSE i \in DOMAIN cs : cs[i].fn = fn].arg

(* C15: after every read() that returned, the engine calls it issued are
   one reset, the sample selection (none, a list, or an emptied list and a
   file), the regions, the attributes, the region file if any, one read
   unit and the retrieval of its rows, in this order; the handle's
   selection is the one these calls made and nothing else, one unit has
   been read since the reset, and the rows returned are that unit's. *)
C15_ReadOrder ==
    (mode = "r" /\ last.op = "read" /\ last.err = NoErr) =>
       /\ \E sel \in {<<>>, <<"set_samples">>,
                       <<"set_samples", "set_samples_file">>},
             bed \in {<<>>, <<"set_bed_file">>} :
             Fns(calls) = <<"reset">> \o sel
                            \o <<"set_regions", "set_attributes">> \o bed
                            \o <<"read", "get_results_arrow">>
       /\ reader.samples = ArgOf(calls, "set_samples", <<>>)
       /\ reader.samples_file =
            IF NumCalls(calls, "set_samples_file") = 0 THEN None
            ELSE Some(ArgOf(calls, "set_samples_file", None))
       /\ NumCalls(calls, "set_samples_file") = 1 => reader.samples = <<>>
       /\ reader.regions = ArgOf(calls, "set_regions", <<>>)
       /\ reader.attributes = ArgOf(calls, "set_attributes", <<>>)
       /\ reader.bed_file =
            IF NumCalls(calls, "set_bed_file") = 0 THEN None
            ELSE Some(ArgOf(calls, "set_bed_file", None))
       /\ units.issued = 1
       /\ last.ret = Some(reader_result_num_records(reader))
       /\ reader.offset = reader_result_num_records(reader)

C15_Witness ==
    /\ mode = "r"
    /\ last.op = "read"
    /\ last.err = NoErr
    /\ Len(calls) = 6
    /\ gen.pc \in Suspended
    /\ gen.args[1].samples_file = Some(SamplesFileF)
    /\ gen.args[1].bed_file = Some(BedFile)
    /\ reader.samples = SampleA
    /\ reader.samples_file = None
    /\ reader.bed_file = None


(* the selection a read handle holds *)
Selection ==
    <<reader.samples, reader.samples_file, reader.regions, reader.attributes,
      reader.bed_file>>

(* C16: a continue_read() call on a read session, in whatever state,
   issues one read unit and then one retrieval of rows and no other engine
   call, returns without an error, and leaves the mode, the configuration
   the handle holds and its sample, region, attribute and region-file
   selection as they were. *)
C16_ContinueStep ==
    (mode = "r" /\ last'.op = "continue_read") =>
       /\ Fns(calls') = <<"read", "get_results_arrow">>
       /\ last'.err = NoErr
       /\ mode' = mode
       /\ AppliedCfg' = AppliedCfg
       /\ Selection' = Selection
       /\ units'.issued = units.issued + 1
       /\ reader_completed(reader) => reader_completed(reader')

C16_ContinueFrame == [][C16_ContinueStep]_vars

C16_Witness ==
    /\ mode = "r"
    /\ last.op = "continue_read"
    /\ reader_completed(reader)
    /\ units.complete = 2
    /\ reader.samples_file = Some(SamplesFileF)
    /\ reader.bed_file = Some(BedFile)


----------------------------------------------------------------------------
(* one engine call when the argument is supplied, none otherwise *)
CallIf(supplied, fn, arg) ==
    IF supplied THEN <<[fn |-> fn, arg |-> arg]>> ELSE <<>>

(* the engine calls of a successful ingest with arguments a on a dataset
   of schema version v *)
IngestCalls(a, v) ==
    CallIf(a.threads # None, "set_num_threads", a.threads[1])
    \o CallIf(a.memory_budget # None, "set_memory_budget", a.memory_budget[1])
    \o CallIf(a.scratch_space_path # None, "set_scratch_space",
               <<a.scratch_space_path[1], a.scratch_space_size[1]>>)
    \o CallIf(a.sample_batch_size # None, "set_sample_batch_size",
               a.sample_batch_size[1])
    \o <<[fn |-> "set_samples", arg |-> JoinCSV(a.sample_uris[1])],
          [fn |-> "get_schema_version", arg |-> None]>>
    \o CallIf(v < 4, "register_samples", None)
    \o <<[fn |-> "ingest_samples", arg |-> None]>>

NonEmptyUris(a) == a.sample_uris # None /\ a.sample_uris[1] # <<>>

(* C17: on a write session, ingest_samples with a non-empty sample list
   and a complete or absent scratch configuration returns without an error
   after these engine calls and no other, in this order: thread count,
   memory budget, scratch space and batch size, each when supplied, the
   sample list, the schema version query, the registration when the
   version is below 4, and one ingest call, the last. *)
C17_IngestOrder ==
    mode = "w" =>
       \A a \in IngestArgs :
          (NonEmptyUris(a) /\ ~OneScratch(a)) =>
             \E o \in {ingest_samples(Begin, a)} :
                /\ o.err = NoErr
                /\ o.calls = IngestCalls(a, store.version)
                /\ NumCalls(o.calls, "register_samples") =
                     IF store.version < 4 THEN 1 ELSE 0
                /\ NumCalls(o.calls, "ingest_samples") = 1
                /\ o.calls[Len(o.calls)].fn = "ingest_samples"

C17_Witness ==
    /\ mode = "w"
    /\ last.op = "ingest_samples"
    /\ last.err = NoErr
    /\ store.version < 4
    /\ Fns(calls) = <<"set_num_threads", "set_memory_budget",
                      "set_scratch_space", "set_sample_batch_size",
                      "set_samples", "get_schema_version",
                      "register_samples", "ingest_samples">>


----------------------------------------------------------------------------
(* C18: every region-partition or sample-partition selector among the
   engine calls of the latest operation, construction included, is a pair
   (index, count) with 0 <= index < count. *)
C18_ValidSelectors ==
    \A i \in DOMAIN calls :
       calls[i].fn \in {"set_region_partition", "set_sample_partition"} =>
          /\ Len(calls[i].arg) = 2
          /\ 0 <= calls[i].arg[1]
          /\ calls[i].arg[1] < calls[i].arg[2]

(* C19 as stated: a read() that raises the conflicting-selection error
   leaves the read handle as it was before the call. *)
C19_FailedReadStep ==
    (mode = "r" /\ last'.op = "read" /\ last'.err \in ConflictingSelection) =>
       /\ NumCalls(calls', "read") = 0
       /\ NumCalls(calls', "reset") = 0
       /\ reader' = reader

C19_FailedReadNoEffect == [][C19_FailedReadStep]_vars

(* C19, amended: a read() that raises the conflicting-selection error has
   issued one engine call, the reset, and no read unit: the handle is left
   as reset() leaves it, with the previous selection cleared, no unit read
   and read_completed() false, and with its configuration kept. *)
C19_FailedReadResetsStep ==
    (mode = "r" /\ last'.op = "read" /\ last'.err \in ConflictingSelection) =>
       /\ Fns(calls') = <<"reset">>
       /\ reader' = reader_reset(reader)
       /\ Selection' = <<<<>>, None, <<>>, <<>>, None>>
       /\ ~reader_completed(reader')
       /\ units'.issued = 0
       /\ AppliedCfg' = AppliedCfg

C19_FailedReadResets == [][C19_FailedReadResetsStep]_vars

C19_Witness ==
    /\ mode = "r"
    /\ last.op = "read"
    /\ last.err \in ConflictingSelection
    /\ gen.pc = "yield_read"
    /\ gen.args[1].samples_file = Some(SamplesFileF)
    /\ reader.samples_file = None
    /\ ~reader_completed(reader)

(* C20: a read handle never holds a non-empty explicit sample list
   together with a samples file, whatever operations were called. *)
C20_ListOrFile ==
    mode = "r" => ~(reader.samples # <<>> /\ reader.samples_file # None)

C20_Witness ==
    /\ mode = "r"
    /\ last.op = "read"
    /\ last.err = NoErr
    /\ NumCalls(calls, "set_samples_file") = 1
    /\ reader.samples = <<>>
    /\ reader.samples_file = Some(SamplesFileF)
    /\ units.issued = 1

====
